---- MODULE Spec2Model ----
(***************************************************************************)
(* Model of iris/api/helpers/general.py: the recovery flows                *)
(* (confirm_firefox_quit, restart_firefox, address_crash_reporter,         *)
(* click_auxiliary_window_control) and the about:* readers                 *)
(* (get_pref_value, get_support_info, get_telemetry_info).                 *)
(*                                                                         *)
(* The program is single-threaded.  One top-level helper runs at a time;   *)
(* pc is its position, stack holds the call sites of the helpers that are  *)
(* waiting for a callee, log is the list of primitive calls made so far in *)
(* the running top-level invocation, each with its outcome.  The screen is *)
(* not under the program's control: every search primitive (wait,          *)
(* wait_vanish, exists, click/hover on a pattern) takes its outcome        *)
(* nondeterministically.                                                   *)
(***************************************************************************)
EXTENDS Integers, Sequences, FiniteSets, TLC

VARIABLES
    pc,        \* position of the running helper; "idle" before the first call
    fn,        \* name of the top-level helper that was called last
    stack,     \* call sites waiting for a callee, innermost last
    log,       \* primitive calls of the running top-level invocation
    exc,       \* exception that left the top-level helper, NoExc if none
    result,    \* value the top-level helper returned
    finished,  \* app.finish(code=1) was called
    tabs,      \* number of open tabs
    tabs0,     \* number of open tabs when the top-level helper was called
    clip,      \* raw text of the system clipboard
    os,        \* Settings.get_os()
    button,    \* argument of the running click_auxiliary_window_control
    acr,       \* latest address_crash_reporter invocation: state, log span
    value,     \* argument `value` of the running change_preference
    menu,      \* the browser's menu panel: "closed" or "open"
    prev,      \* the previous invocation, kept when it was a menu helper
    found,     \* the matches find() returned to the running helper
    type_delay,   \* Settings.type_delay
    type_delay0   \* Settings.type_delay when the top-level helper was called

vars == <<pc, fn, stack, log, exc, result, finished, tabs, tabs0, clip, os, button, acr,
          value, menu, prev, found, type_delay, type_delay0>>

-----------------------------------------------------------------------------
(* Bounds *)

MaxTabs == 3
MaxLen == 4
MaxOffset == 1

-----------------------------------------------------------------------------
(* Values *)

Platforms == {"MAC", "WINDOWS", "LINUX"}
Buttons == {"close", "minimize", "maximize", "full_screen", "zoom_restore"}

HOME_BUTTON == "home_button"
REPORTER == "crash_sorry.png"
QUIT_BUTTON == "quit_firefox_button.png"

NoExc == [cls |-> "none", msg |-> ""]
Exc(c, m) == [cls |-> c, msg |-> m]

NoResult == [kind |-> "none", val |-> <<>>]

Ev(o, a, k) == [op |-> o, arg |-> a, ok |-> k]

Front(s) == SubSeq(s, 1, Len(s) - 1)
Last(s) == s[Len(s)]

\* number of log entries of s with operation o on a that were carried out
Count(s, o, a) == Cardinality({i \in 1..Len(s) : s[i].op = o /\ s[i].arg = a /\ s[i].ok})
\* number of log entries of s with operation o on a, whatever the outcome
Tried(s, o, a) == Cardinality({i \in 1..Len(s) : s[i].op = o /\ s[i].arg = a})

NoAcr == [state |-> "none", start |-> 0, end |-> 0]

NoValue == <<>>
NoMatch == [kind |-> "none"]
NoPrev == [fn |-> "none", ok |-> FALSE, log |-> <<>>]

\* the helpers that open a menu panel and click one of its options
MenuHelpers == {"click_hamburger_menu_option", "open_library_menu"}

-----------------------------------------------------------------------------
(* Exception propagation and return through the waiting call sites *)

\* the call sites that sit inside a try block, and what each one catches
Catches(site, e) ==
    \/ site = "cfq_try1" /\ e.cls = "FindError"
    \/ site = "cfq_try2" /\ e.cls = "FindError"

HandlerPc(site) ==
    CASE site = "cfq_try1" -> "cfq_escalate"
      [] site = "cfq_try2" -> "cfq_abort"
      [] OTHER -> "done"

RECURSIVE Raise(_, _)
Raise(e, stk) ==
    IF stk = <<>>
    THEN [pc |-> "done", stack |-> <<>>, exc |-> e]
    ELSE IF Catches(Last(stk), e)
         THEN [pc |-> HandlerPc(Last(stk)), stack |-> Front(stk), exc |-> NoExc]
         ELSE Raise(e, Front(stk))

\* every call site of the model is the last statement of its caller
RECURSIVE Return(_)
Return(stk) ==
    IF stk = <<>>
    THEN [pc |-> "done", stack |-> <<>>]
    ELSE Return(Front(stk))

\* bookkeeping of the address_crash_reporter span when control leaves it
AcrLeaves(how, newlog) ==
    IF acr.state = "running"
    THEN [acr EXCEPT !.state = how, !.end = Len(newlog)]
    ELSE acr

-----------------------------------------------------------------------------

\* Settings.type_delay as the settings module leaves it, and as navigate_slow
\* sets it
DEFAULT_TYPE_DELAY == "default"
SLOW_TYPE_DELAY == "0.1"

Init ==
    /\ pc = "idle"
    /\ fn = "none"
    /\ stack = <<>>
    /\ log = <<>>
    /\ exc = NoExc
    /\ result = NoResult
    /\ finished = FALSE
    /\ tabs = 1
    /\ tabs0 = 1
    /\ clip = <<>>
    /\ os \in Platforms
    /\ button = "none"
    /\ acr = NoAcr
    /\ value = NoValue
    /\ menu = "closed"
    /\ prev = NoPrev
    /\ found = NoMatch
    /\ type_delay = DEFAULT_TYPE_DELAY
    /\ type_delay0 = DEFAULT_TYPE_DELAY

\* a helper can be called when no helper runs and the run was not aborted
CanCall == pc \in {"idle", "done"} /\ ~finished

Begin(f, p) ==
    /\ CanCall
    /\ pc' = p
    /\ fn' = f
    /\ stack' = <<>>
    /\ log' = <<>>
    /\ exc' = NoExc
    /\ result' = NoResult
    /\ tabs0' = tabs
    /\ type_delay0' = type_delay
    /\ prev' = IF fn \in MenuHelpers /\ pc = "done"
               THEN [fn |-> fn, ok |-> exc = NoExc, log |-> log]
               ELSE NoPrev
    /\ found' = NoMatch
    /\ UNCHANGED <<finished, tabs, clip, os, type_delay, menu>>

-----------------------------------------------------------------------------
(* confirm_firefox_quit *)

Call_confirm_firefox_quit ==
    /\ Begin("confirm_firefox_quit", "cfq_wait1")
    /\ value' = NoValue
    /\ button' = "none"
    /\ acr' = NoAcr

\* call of address_crash_reporter from the site `site`
EnterAcr(site, newlog) ==
    /\ pc' = "acr_exists"
    /\ stack' = Append(stack, site)
    /\ acr' = [state |-> "running", start |-> Len(newlog), end |-> 0]

\* line 74-75: wait_vanish(NavBar.HOME_BUTTON, 10), then address_crash_reporter()
cfq_wait1 ==
    /\ pc = "cfq_wait1"
    /\ \E ok \in BOOLEAN :
        /\ log' = Append(log, Ev("wait_vanish", HOME_BUTTON, ok))
        /\ IF ok
           THEN EnterAcr("cfq_try1", log')
           ELSE /\ pc' = "cfq_escalate"
                /\ UNCHANGED <<stack, acr>>
    /\ UNCHANGED <<fn, exc, result, finished, tabs, tabs0, clip, os, type_delay, type_delay0, value, menu, prev, found, button>>

\* lines 76-83: the except FindError branch up to quit_firefox()
cfq_escalate ==
    /\ pc = "cfq_escalate"
    /\ \E ok \in BOOLEAN :
        IF ok
        THEN /\ log' = log \o <<Ev("type", "ENTER", TRUE), Ev("type", "ESC", TRUE),
                                Ev("click", HOME_BUTTON, TRUE), Ev("quit_firefox", "", TRUE)>>
             /\ pc' = "cfq_wait2"
             /\ exc' = exc
        ELSE \* click(NavBar.HOME_BUTTON) raises FindError inside the handler
             /\ log' = log \o <<Ev("type", "ENTER", TRUE), Ev("type", "ESC", TRUE),
                                Ev("click", HOME_BUTTON, FALSE)>>
             /\ pc' = "done"
             /\ exc' = Exc("FindError", "home_button")
    /\ UNCHANGED <<fn, stack, result, finished, tabs, tabs0, clip, os, type_delay, type_delay0, value, menu, prev, found, button, acr>>

\* lines 84-86: the second wait_vanish, then address_crash_reporter()
cfq_wait2 ==
    /\ pc = "cfq_wait2"
    /\ \E ok \in BOOLEAN :
        /\ log' = Append(log, Ev("wait_vanish", HOME_BUTTON, ok))
        /\ IF ok
           THEN EnterAcr("cfq_try2", log')
           ELSE /\ pc' = "cfq_abort"
                /\ UNCHANGED <<stack, acr>>
    /\ UNCHANGED <<fn, exc, result, finished, tabs, tabs0, clip, os, type_delay, type_delay0, value, menu, prev, found, button>>

\* mutant of cfq_abort: a second failure starts the escalation again
cfq_abort_Retry ==
    /\ pc = "cfq_abort"
    /\ pc' = "cfq_escalate"
    /\ UNCHANGED <<fn, stack, log, exc, result, finished, tabs, tabs0, clip, os, type_delay, type_delay0, value, menu, prev, found, button, acr>>

\* lines 87-89: app.finish(code=1)
cfq_abort ==
    /\ pc = "cfq_abort"
    /\ log' = Append(log, Ev("finish", "1", TRUE))
    /\ finished' = TRUE
    /\ pc' = "done"
    /\ UNCHANGED <<fn, stack, exc, result, tabs, tabs0, clip, os, type_delay, type_delay0, value, menu, prev, found, button, acr>>

-----------------------------------------------------------------------------
(* address_crash_reporter *)

Call_address_crash_reporter ==
    /\ Begin("address_crash_reporter", "acr_exists")
    /\ value' = NoValue
    /\ button' = "none"
    /\ acr' = [state |-> "running", start |-> 0, end |-> 0]

\* control leaves the running helper by return
DoReturn(newlog) ==
    /\ pc' = Return(stack).pc
    /\ stack' = Return(stack).stack
    /\ exc' = exc
    /\ acr' = AcrLeaves("returned", newlog)

\* control leaves the running helper by exception e
DoRaise(e, newlog) ==
    /\ pc' = Raise(e, stack).pc
    /\ stack' = Raise(e, stack).stack
    /\ exc' = Raise(e, stack).exc
    /\ acr' = AcrLeaves("raised", newlog)

\* mutant of acr_exists: the result of the probe is ignored
acr_exists_AlwaysDismiss ==
    /\ pc = "acr_exists"
    /\ \E present \in BOOLEAN :
        /\ log' = Append(log, Ev("exists", REPORTER, present))
        /\ pc' = "acr_dismiss"
    /\ UNCHANGED <<fn, stack, exc, result, finished, tabs, tabs0, clip, os, type_delay, type_delay0, value, menu, prev, found, button, acr>>

\* line 398: if exists(reporter_pattern, 2); lines 417-419 when absent
acr_exists ==
    /\ pc = "acr_exists"
    /\ \E present \in BOOLEAN :
        /\ log' = Append(log, Ev("exists", REPORTER, present))
        /\ IF present
           THEN /\ pc' = "acr_dismiss"
                /\ UNCHANGED <<stack, exc, acr>>
           ELSE DoReturn(log')
    /\ UNCHANGED <<fn, result, finished, tabs, tabs0, clip, os, type_delay, type_delay0, value, menu, prev, found, button>>

\* lines 401-405: click the reporter, type the annotation, click quit
acr_dismiss ==
    /\ pc = "acr_dismiss"
    /\ \E out \in {"ok", "no_reporter", "no_quit_button"} :
        CASE out = "ok" ->
                /\ log' = log \o <<Ev("click", REPORTER, TRUE),
                                   Ev("type", "Iris automation test crash.", TRUE),
                                   Ev("click", QUIT_BUTTON, TRUE)>>
                /\ pc' = "acr_wait_vanish"
                /\ UNCHANGED <<stack, exc, acr>>
          [] out = "no_reporter" ->
                /\ log' = Append(log, Ev("click", REPORTER, FALSE))
                /\ DoRaise(Exc("FindError", REPORTER), log')
          [] out = "no_quit_button" ->
                /\ log' = log \o <<Ev("click", REPORTER, TRUE),
                                   Ev("type", "Iris automation test crash.", TRUE),
                                   Ev("click", QUIT_BUTTON, FALSE)>>
                /\ DoRaise(Exc("FindError", QUIT_BUTTON), log')
    /\ UNCHANGED <<fn, result, finished, tabs, tabs0, clip, os, type_delay, type_delay0, value, menu, prev, found, button>>

\* mutant of acr_wait_vanish: the timeout is logged and nothing is force-closed
acr_wait_vanish_NoForceClose ==
    /\ pc = "acr_wait_vanish"
    /\ \E ok \in BOOLEAN :
        /\ log' = Append(log, Ev("wait_vanish", REPORTER, ok))
        /\ DoReturn(log')
    /\ UNCHANGED <<fn, result, finished, tabs, tabs0, clip, os, type_delay, type_delay0, value, menu, prev, found, button>>

\* lines 408-416: wait_vanish(reporter_pattern, 20); on FindError the
\* force-close click_auxiliary_window_control('close')
acr_wait_vanish ==
    /\ pc = "acr_wait_vanish"
    /\ \E ok \in BOOLEAN :
        /\ IF ok
           THEN /\ log' = Append(log, Ev("wait_vanish", REPORTER, TRUE))
                /\ DoReturn(log')
                /\ button' = button
           ELSE /\ log' = log \o <<Ev("wait_vanish", REPORTER, FALSE),
                                   Ev("click_auxiliary_window_control", "close", TRUE)>>
                /\ pc' = "aux_hover"
                /\ stack' = Append(stack, "acr_close")
                /\ button' = "close"
                /\ UNCHANGED <<exc, acr>>
    /\ UNCHANGED <<fn, result, finished, tabs, tabs0, clip, os, type_delay, type_delay0, value, menu, prev, found>>

-----------------------------------------------------------------------------
(* click_auxiliary_window_control *)

RED_BUTTON == "unhovered_red_control.png"
HOVERED_RED == "hovered_red_button.png"
AUX_CONTROLS == "auxiliary_window_controls.png"
CLOSE_BUTTON == "auxiliary_window_close_button.png"
MAXIMIZE_BUTTON == "auxiliary_window_maximize.png"
RESTORE_BUTTON == "minimize_full_screen_auxiliary_window.png"
MINIMIZE_BUTTON == "auxiliary_window_minimize.png"

Call_click_auxiliary_window_control ==
    /\ Begin("click_auxiliary_window_control", "aux_hover")
    /\ value' = NoValue
    /\ \E b \in Buttons :
        /\ button' = b
    /\ acr' = NoAcr

\* lines 307-318: the platform's patterns are bound, hover(Location(1, 300))
aux_hover ==
    /\ pc = "aux_hover"
    /\ log' = Append(log, Ev("hover", "Location(1, 300)", TRUE))
    /\ pc' = "aux_wait"
    /\ UNCHANGED <<fn, stack, exc, result, finished, tabs, tabs0, clip, os, type_delay, type_delay0, value, menu, prev, found, button, acr>>

\* the pattern whose presence the helper waits for
AuxAnchor(p) == IF p = "MAC" THEN RED_BUTTON ELSE CLOSE_BUTTON

\* lines 320-333: wait for the window controls, APIHelperError if absent
aux_wait ==
    /\ pc = "aux_wait"
    /\ \E ok \in BOOLEAN :
        LET pre == IF os = "LINUX" THEN <<Ev("hover", "Location(80, 0)", TRUE)>> ELSE <<>>
        IN  /\ log' = log \o pre \o <<Ev("wait", AuxAnchor(os), ok)>>
            /\ IF ok
               THEN /\ pc' = "aux_act"
                    /\ UNCHANGED <<stack, exc, acr>>
               ELSE DoRaise(Exc("APIHelperError", "Can't find the auxiliary window controls, aborting."), log')
    /\ UNCHANGED <<fn, result, finished, tabs, tabs0, clip, os, type_delay, type_delay0, value, menu, prev, found, button>>

\* one input step of a script: out is "ok" (cannot fail), "may" (raises
\* FindError when its pattern is not on screen) or "unbound" (reads a local
\* name that the platform's branch of lines 307-315 never assigned)
Step(o, a, out) == [op |-> o, arg |-> a, out |-> out]

\* lines 335-369: the input sequence of each button on each platform
AuxScript(p, b) ==
    CASE b = "close" ->
            IF p = "MAC"
            THEN <<Step("hover", RED_BUTTON, "may"), Step("click", HOVERED_RED, "may")>>
            ELSE <<Step("click", CLOSE_BUTTON, "may")>>
      [] b = "minimize" ->
            IF p = "MAC"
            THEN <<Step("click", AUX_CONTROLS, "may")>>
            ELSE <<Step("click", MINIMIZE_BUTTON, "may")>>
      [] b = "full_screen" ->
            IF p = "MAC"
            THEN <<Step("click", AUX_CONTROLS, "may")>>
            ELSE <<Step("read", "auxiliary_window_controls_pattern", "unbound")>>
      [] b = "maximize" ->
            IF p = "MAC"
            THEN <<Step("key_down", "ALT", "ok"), Step("click", AUX_CONTROLS, "may"),
                   Step("key_up", "ALT", "ok")>>
            ELSE <<Step("click", MAXIMIZE_BUTTON, "may")>>
                 \o (IF p = "LINUX" THEN <<Step("hover", "Location(80, 0)", "ok")>> ELSE <<>>)
      [] b = "zoom_restore" ->
            IF p = "MAC"
            THEN <<Step("hover", "Location(0, 0)", "ok"), Step("hover", RED_BUTTON, "may"),
                   Step("read", "zoom_restore_button_pattern", "unbound")>>
            ELSE <<Step("click", RESTORE_BUTTON, "may")>>
      [] OTHER -> <<>>

\* a script runs to its end (k = 0) or stops at its k-th step, which fails
CanStopAt(script, k) ==
    /\ \A i \in 1..Len(script) : (k = 0 \/ i < k) => script[i].out # "unbound"
    /\ k > 0 => script[k].out \in {"may", "unbound"}

\* the log entries a script leaves when it stops at k
Ran(script, k) ==
    [i \in 1..(IF k = 0 THEN Len(script) ELSE k) |->
        Ev(script[i].op, script[i].arg, i # k)]

StepError(st) ==
    IF st.out = "unbound"
    THEN Exc("UnboundLocalError", st.arg)
    ELSE Exc("FindError", st.arg)

aux_act ==
    /\ pc = "aux_act"
    /\ LET script == AuxScript(os, button)
       IN  \E k \in 0..Len(script) :
            /\ CanStopAt(script, k)
            /\ log' = log \o Ran(script, k)
            /\ IF k = 0
               THEN DoReturn(log')
               ELSE DoRaise(StepError(script[k]), log')
    /\ UNCHANGED <<fn, result, finished, tabs, tabs0, clip, os, type_delay, type_delay0, value, menu, prev, found, button>>

-----------------------------------------------------------------------------
(* restart_firefox *)

Call_restart_firefox ==
    /\ Begin("restart_firefox", "rf_quit")
    /\ value' = NoValue
    /\ button' = "none"
    /\ acr' = NoAcr

\* line 140: quit_firefox()
rf_quit ==
    /\ pc = "rf_quit"
    /\ log' = Append(log, Ev("quit_firefox", "", TRUE))
    /\ pc' = "rf_wait"
    /\ UNCHANGED <<fn, stack, exc, result, finished, tabs, tabs0, clip, os, type_delay, type_delay0, value, menu, prev, found, button, acr>>

\* mutant of rf_wait: a timeout is followed by the escalation of
\* confirm_firefox_quit and one more wait
rf_wait_Escalates ==
    /\ pc = "rf_wait"
    /\ \E ok \in BOOLEAN, again \in BOOLEAN :
        IF ok
        THEN /\ log' = Append(log, Ev("wait_vanish", HOME_BUTTON, TRUE))
             /\ pc' = "rf_launch"
             /\ exc' = exc
        ELSE /\ log' = log \o <<Ev("wait_vanish", HOME_BUTTON, FALSE),
                                Ev("type", "ENTER", TRUE), Ev("type", "ESC", TRUE),
                                Ev("click", HOME_BUTTON, TRUE), Ev("quit_firefox", "", TRUE),
                                Ev("wait_vanish", HOME_BUTTON, again)>>
             /\ pc' = IF again THEN "rf_launch" ELSE "done"
             /\ exc' = IF again THEN exc
                       ELSE Exc("APIHelperError", "Firefox still around - cannot restart.")
    /\ UNCHANGED <<fn, stack, result, finished, tabs, tabs0, clip, os, type_delay, type_delay0, value, menu, prev, found, button, acr>>

\* mutant of rf_wait: after a timeout Firefox is launched all the same
rf_wait_LaunchesAnyway ==
    /\ pc = "rf_wait"
    /\ \E ok \in BOOLEAN :
        /\ log' = Append(log, Ev("wait_vanish", HOME_BUTTON, ok))
        /\ pc' = "rf_launch"
        /\ exc' = exc
    /\ UNCHANGED <<fn, stack, result, finished, tabs, tabs0, clip, os, type_delay, type_delay0, value, menu, prev, found, button, acr>>

\* lines 147-148 and 159-160: wait_vanish(home_pattern, 10); a FindError
\* becomes APIHelperError at once
rf_wait ==
    /\ pc = "rf_wait"
    /\ \E ok \in BOOLEAN :
        /\ log' = Append(log, Ev("wait_vanish", HOME_BUTTON, ok))
        /\ IF ok
           THEN /\ pc' = "rf_launch"
                /\ exc' = exc
           ELSE /\ pc' = "done"
                /\ exc' = Exc("APIHelperError", "Firefox still around - cannot restart.")
    /\ UNCHANGED <<fn, stack, result, finished, tabs, tabs0, clip, os, type_delay, type_delay0, value, menu, prev, found, button, acr>>

\* lines 151-153: launch_firefox(path, profile, url, args); lines 33-35:
\* without a profile it raises ValueError before the process is started
rf_launch ==
    /\ pc = "rf_launch"
    /\ \E profile \in {"none", "profile"} :
        IF profile = "none"
        THEN /\ log' = Append(log, Ev("launch_firefox", "", FALSE))
             /\ pc' = "done"
             /\ exc' = Exc("ValueError", "")
        ELSE /\ log' = Append(log, Ev("launch_firefox", "", TRUE))
             /\ pc' = "rf_check"
             /\ exc' = exc
    /\ UNCHANGED <<fn, stack, result, finished, tabs, tabs0, clip, os, type_delay, type_delay0, value, menu, prev, found, button, acr>>

\* lines 155-158: exists(check_pattern, 20)
rf_check ==
    /\ pc = "rf_check"
    /\ \E image \in {"none", "image.png"}, ok \in BOOLEAN :
        LET check_pattern == IF image = "none" THEN HOME_BUTTON ELSE image
        IN  /\ log' = Append(log, Ev("exists", check_pattern, ok))
            /\ pc' = "done"
            /\ exc' = IF ok THEN exc ELSE Exc("APIHelperError", "Firefox not relaunched.")
    /\ UNCHANGED <<fn, stack, result, finished, tabs, tabs0, clip, os, type_delay, type_delay0, value, menu, prev, found, button, acr>>

-----------------------------------------------------------------------------
(* wait_for_firefox_restart *)

Call_wait_for_firefox_restart ==
    /\ Begin("wait_for_firefox_restart", "wfr")
    /\ value' = NoValue
    /\ button' = "none"
    /\ acr' = NoAcr

\* lines 806-816: wait_vanish(home_pattern, 10), then wait(home_pattern, 20);
\* the FindError of either becomes APIHelperError
wait_for_firefox_restart ==
    /\ pc = "wfr"
    /\ \E gone \in BOOLEAN, back \in BOOLEAN :
        /\ log' = log \o <<Ev("wait_vanish", HOME_BUTTON, gone)>>
                      \o (IF gone THEN <<Ev("wait", HOME_BUTTON, back)>> ELSE <<>>)
        /\ exc' = IF gone /\ back THEN exc
                  ELSE Exc("APIHelperError", "Firefox restart has not been performed, aborting.")
    /\ pc' = "done"
    /\ UNCHANGED <<fn, stack, result, finished, tabs, tabs0, clip, os, type_delay, type_delay0, value, menu, prev, found, button, acr>>

-----------------------------------------------------------------------------
(* zoom_with_mouse_wheel *)

MaxTimes == 2

\* zoom_type: ZoomType.IN, ZoomType.OUT, or the default None
ZoomTypes == {"ZoomType.IN", "ZoomType.OUT", "None"}

\* the modifier held while scrolling
ZoomKey(p) == IF p = "MAC" THEN "command" ELSE "ctrl"

\* one pass of the loop of lines 793-802
ZoomPass(p, zoom_type) ==
    <<Ev("key_down", ZoomKey(p), TRUE), Ev("scroll", zoom_type, TRUE),
      Ev("key_up", ZoomKey(p), TRUE)>>

RECURSIVE ZoomPasses(_, _, _)
ZoomPasses(n, p, zoom_type) ==
    IF n = 0 THEN <<>> ELSE ZoomPass(p, zoom_type) \o ZoomPasses(n - 1, p, zoom_type)

Call_zoom_with_mouse_wheel ==
    /\ Begin("zoom_with_mouse_wheel", "zmw")
    /\ value' = NoValue
    /\ button' = "none"
    /\ acr' = NoAcr

\* lines 781-803; what pyautogui.scroll does with None is not in the source:
\* it scrolls or raises TypeError (rejects)
zoom_with_mouse_wheel ==
    /\ pc = "zmw"
    /\ \E nr_of_times \in 0..MaxTimes, zoom_type \in ZoomTypes, rejects \in BOOLEAN :
        /\ rejects => (zoom_type = "None" /\ nr_of_times > 0)
        /\ log' = log \o <<Ev("moveTo", "middle", TRUE)>>
                      \o (IF rejects
                          THEN <<Ev("key_down", ZoomKey(os), TRUE), Ev("scroll", zoom_type, FALSE)>>
                          ELSE ZoomPasses(nr_of_times, os, zoom_type)
                               \o <<Ev("moveTo", "(0, 0)", TRUE)>>)
        /\ exc' = IF rejects THEN Exc("TypeError", "scroll") ELSE exc
    /\ pc' = "done"
    /\ UNCHANGED <<fn, stack, result, finished, tabs, tabs0, clip, os, type_delay, type_delay0, value, menu, prev, found, button, acr>>

-----------------------------------------------------------------------------
(* Clipboard text: str.strip() and str.split(';') *)

\* a letter, the delimiter and whitespace
Chars == {"v", ";", " "}
Texts == UNION {[1..k -> Chars] : k \in 0..MaxLen}

IsSpace(c) == c = " "

RECURSIVE LStrip(_)
LStrip(s) == IF s # <<>> /\ IsSpace(Head(s)) THEN LStrip(Tail(s)) ELSE s

RECURSIVE RStrip(_)
RStrip(s) == IF s # <<>> /\ IsSpace(Last(s)) THEN RStrip(Front(s)) ELSE s

\* str.strip(): leading and trailing whitespace removed
Strip(s) == RStrip(LStrip(s))

\* str.split(sep): the fields between the separators, one more than separators
RECURSIVE Split(_, _)
Split(s, sep) ==
    IF \A i \in 1..Len(s) : s[i] # sep
    THEN <<s>>
    ELSE LET i == CHOOSE j \in 1..Len(s) :
                    s[j] = sep /\ \A k \in 1..(j - 1) : s[k] # sep
         IN  <<SubSeq(s, 1, i - 1)>> \o Split(SubSeq(s, i + 1, Len(s)), sep)

\* mutant of copy_to_clipboard: the text is returned as copied
copy_to_clipboard_NoStrip(raw) == raw

\* lines 181-187: the clipboard's text, stripped
copy_to_clipboard(raw) == Strip(raw)

\* lines 898, 213: .split(';'[0])[1]; IndexError when there is no second field
SplitSecond(text) ==
    LET fields == Split(text, ";")
    IN  IF Len(fields) >= 2
        THEN [raised |-> "none", val |-> fields[2]]
        ELSE [raised |-> "IndexError", val |-> <<>>]

\* mutant of PrefValueError: the exception of the parse is not caught
PrefValueError_Unwrapped(cls) == Exc(cls, "list index out of range")

\* lines 899-900: any exception of the parse is raised again as APIHelperError
PrefValueError(cls) == Exc("APIHelperError", "Failed to retrieve preference value.")

-----------------------------------------------------------------------------
(* get_pref_value *)

Call_get_pref_value ==
    /\ Begin("get_pref_value", "gpv_open")
    /\ value' = NoValue
    /\ tabs < MaxTabs
    /\ button' = "none"
    /\ acr' = NoAcr

\* lines 883-895: new tab, about:config, filter on the preference's name
gpv_open ==
    /\ pc = "gpv_open"
    /\ tabs' = tabs + 1
    /\ log' = log \o <<Ev("new_tab", "", TRUE), Ev("select_location_bar", "", TRUE),
                       Ev("paste", "about:config", TRUE), Ev("type", "ENTER", TRUE),
                       Ev("type", "SPACE", TRUE), Ev("paste", "pref_name", TRUE),
                       Ev("type", "TAB", TRUE)>>
    /\ pc' = "gpv_read"
    /\ UNCHANGED <<fn, stack, exc, result, finished, tabs0, clip, os, type_delay, type_delay0, value, menu, prev, found, button, acr>>

\* lines 897-900: copy the row, take the second field
gpv_read ==
    /\ pc = "gpv_read"
    /\ \E row \in Texts :
        LET parsed == SplitSecond(copy_to_clipboard(row))
        IN  /\ clip' = row
            /\ log' = log \o <<Ev("edit_select_all", "", TRUE), Ev("edit_copy", "", TRUE)>>
            /\ IF parsed.raised = "none"
               THEN /\ result' = [kind |-> "text", val |-> parsed.val]
                    /\ pc' = "gpv_close"
                    /\ exc' = exc
               ELSE /\ result' = result
                    /\ pc' = "done"
                    /\ exc' = PrefValueError(parsed.raised)
    /\ UNCHANGED <<fn, stack, finished, tabs, tabs0, os, type_delay, type_delay0, value, menu, prev, found, button, acr>>

\* lines 902-903: close_tab(), return value
gpv_close ==
    /\ pc = "gpv_close"
    /\ tabs' = tabs - 1
    /\ log' = Append(log, Ev("close_tab", "", TRUE))
    /\ pc' = "done"
    /\ UNCHANGED <<fn, stack, exc, result, finished, tabs0, clip, os, type_delay, type_delay0, value, menu, prev, found, button, acr>>

-----------------------------------------------------------------------------
(* change_preference *)

DIALOG_ICON == "preference_dialog_icon.png"

\* the values a caller asks for
PrefValues == {<<>>, <<"v">>, <<"v", "v">>}

Call_change_preference ==
    /\ Begin("change_preference", "cp_open")
    /\ tabs < MaxTabs
    /\ \E v \in PrefValues :
        /\ value' = v
    /\ button' = "none"
    /\ acr' = NoAcr

\* lines 198-210: new tab, about:config, filter on the preference's name
cp_open ==
    /\ pc = "cp_open"
    /\ tabs' = tabs + 1
    /\ log' = log \o <<Ev("new_tab", "", TRUE), Ev("select_location_bar", "", TRUE),
                       Ev("paste", "about:config", TRUE), Ev("type", "ENTER", TRUE),
                       Ev("type", "SPACE", TRUE), Ev("paste", "pref_name", TRUE),
                       Ev("type", "TAB", TRUE)>>
    /\ pc' = "cp_read"
    /\ UNCHANGED <<fn, stack, exc, result, finished, tabs0, clip, os, type_delay, type_delay0, value, menu, prev, found, button, acr>>

\* lines 215 and 231-232: the parse's error is raised as APIHelperError and the
\* outer handler raises it again under the helper's own message
CouldNotSet(cls) == Exc("APIHelperError", "Could not set value to preference.")

\* mutant of cp_read: the value read back is not compared with the request
cp_read_AlwaysWrites ==
    /\ pc = "cp_read"
    /\ \E row \in Texts :
        LET parsed == SplitSecond(copy_to_clipboard(row))
        IN  /\ clip' = row
            /\ log' = log \o <<Ev("edit_select_all", "", TRUE), Ev("edit_copy", "", TRUE)>>
            /\ IF parsed.raised # "none"
               THEN /\ pc' = "done"
                    /\ exc' = CouldNotSet(parsed.raised)
               ELSE /\ pc' = "cp_write"
                    /\ exc' = exc
    /\ UNCHANGED <<fn, stack, result, finished, tabs, tabs0, os, type_delay, type_delay0, value, menu, prev, found, button, acr>>

\* lines 212-220: copy the row, take the second field, compare it with value
cp_read ==
    /\ pc = "cp_read"
    /\ \E row \in Texts :
        LET parsed == SplitSecond(copy_to_clipboard(row))
        IN  /\ clip' = row
            /\ log' = log \o <<Ev("edit_select_all", "", TRUE), Ev("edit_copy", "", TRUE)>>
            /\ IF parsed.raised # "none"
               THEN /\ pc' = "done"
                    /\ exc' = CouldNotSet(parsed.raised)
               ELSE IF parsed.val = value
                    THEN \* line 219: return None
                         /\ pc' = "done"
                         /\ exc' = exc
                    ELSE /\ pc' = "cp_write"
                         /\ exc' = exc
    /\ UNCHANGED <<fn, stack, result, finished, tabs, tabs0, os, type_delay, type_delay0, value, menu, prev, found, button, acr>>

\* lines 221-230: Enter opens the edit dialog; when it shows, the value is
\* pasted and confirmed; a FindError of the wait is passed over; close_tab()
cp_write ==
    /\ pc = "cp_write"
    /\ \E shown \in BOOLEAN :
        /\ log' = log \o <<Ev("type", "ENTER", TRUE), Ev("wait", DIALOG_ICON, shown)>>
                      \o (IF shown
                          THEN <<Ev("paste", "value", TRUE), Ev("type", "ENTER", TRUE)>>
                          ELSE <<>>)
                      \o <<Ev("close_tab", "", TRUE)>>
    /\ tabs' = tabs - 1
    /\ pc' = "done"
    /\ UNCHANGED <<fn, stack, exc, result, finished, tabs0, clip, os, type_delay, type_delay0, value, menu, prev, found, button, acr>>

-----------------------------------------------------------------------------
(* get_support_info *)

COPY_RAW_SUPPORT == "about_support_copy_raw_data_button.png"

Call_get_support_info ==
    /\ Begin("get_support_info", "gsi_open")
    /\ value' = NoValue
    /\ tabs < MaxTabs
    /\ button' = "none"
    /\ acr' = NoAcr

\* lines 911-915
gsi_open ==
    /\ pc = "gsi_open"
    /\ tabs' = tabs + 1
    /\ log' = log \o <<Ev("new_tab", "", TRUE), Ev("select_location_bar", "", TRUE),
                       Ev("paste", "about:support", TRUE), Ev("type", "ENTER", TRUE)>>
    /\ pc' = "gsi_copy"
    /\ UNCHANGED <<fn, stack, exc, result, finished, tabs0, clip, os, type_delay, type_delay0, value, menu, prev, found, button, acr>>

\* lines 917-925: click, json.loads of the clipboard; finally: close_tab()
gsi_copy ==
    /\ pc = "gsi_copy"
    /\ \E out \in {"ok", "no_button", "bad_json"} :
        /\ log' = log \o (IF out = "no_button"
                          THEN <<Ev("click", COPY_RAW_SUPPORT, FALSE)>>
                          ELSE <<Ev("click", COPY_RAW_SUPPORT, TRUE),
                                 Ev("json.loads", "clipboard", out = "ok")>>)
                      \o <<Ev("close_tab", "", TRUE)>>
        /\ tabs' = tabs - 1
        /\ result' = IF out = "ok" THEN [kind |-> "json", val |-> <<>>] ELSE result
        /\ exc' = IF out = "ok" THEN exc
                  ELSE Exc("APIHelperError", "Failed to retrieve support information value.")
    /\ pc' = "done"
    /\ UNCHANGED <<fn, stack, finished, tabs0, clip, os, type_delay, type_delay0, value, menu, prev, found, button, acr>>

-----------------------------------------------------------------------------
(* get_telemetry_info *)

COPY_RAW_TELEMETRY == "copy_raw_data_to_clipboard.png"
RAW_JSON == "raw_json.png"
RAW_DATA == "raw_data.png"

Call_get_telemetry_info ==
    /\ Begin("get_telemetry_info", "gti_open")
    /\ value' = NoValue
    /\ tabs < MaxTabs
    /\ button' = "none"
    /\ acr' = NoAcr

\* lines 976-979
gti_open ==
    /\ pc = "gti_open"
    /\ tabs' = tabs + 1
    /\ log' = log \o <<Ev("new_tab", "", TRUE), Ev("paste", "about:telemetry", TRUE),
                       Ev("type", "ENTER", TRUE)>>
    /\ pc' = "gti_raw_json"
    /\ UNCHANGED <<fn, stack, exc, result, finished, tabs0, clip, os, type_delay, type_delay0, value, menu, prev, found, button, acr>>

\* the log of wait(pattern) followed by click(pattern)
WaitClick(pattern, out) ==
    CASE out = "ok" -> <<Ev("wait", pattern, TRUE), Ev("click", pattern, TRUE)>>
      [] out = "no_wait" -> <<Ev("wait", pattern, FALSE)>>
      [] out = "no_click" -> <<Ev("wait", pattern, TRUE), Ev("click", pattern, FALSE)>>

\* lines 981-986: the 'RAW JSON' button; the handler raises without closing
gti_raw_json ==
    /\ pc = "gti_raw_json"
    /\ \E out \in {"ok", "no_wait", "no_click"} :
        /\ log' = log \o WaitClick(RAW_JSON, out)
        /\ IF out = "ok"
           THEN /\ pc' = "gti_raw_data"
                /\ exc' = exc
           ELSE /\ pc' = "done"
                /\ exc' = Exc("APIHelperError", "'RAW JSON' button not present in the page.")
    /\ UNCHANGED <<fn, stack, result, finished, tabs, tabs0, clip, os, type_delay, type_delay0, value, menu, prev, found, button, acr>>

\* lines 988-994: the 'Raw Data' button; the handler closes the tab and raises
gti_raw_data ==
    /\ pc = "gti_raw_data"
    /\ \E out \in {"ok", "no_wait", "no_click"} :
        IF out = "ok"
        THEN /\ log' = log \o WaitClick(RAW_DATA, out)
             /\ pc' = "gti_copy"
             /\ UNCHANGED <<exc, tabs>>
        ELSE /\ log' = log \o WaitClick(RAW_DATA, out) \o <<Ev("close_tab", "", TRUE)>>
             /\ tabs' = tabs - 1
             /\ pc' = "done"
             /\ exc' = Exc("APIHelperError", "'Raw Data' button not present in the page.")
    /\ UNCHANGED <<fn, stack, result, finished, tabs0, clip, os, type_delay, type_delay0, value, menu, prev, found, button, acr>>

\* lines 996-1004: click, json.loads of the clipboard; finally: close_tab()
gti_copy ==
    /\ pc = "gti_copy"
    /\ \E out \in {"ok", "no_button", "bad_json"} :
        /\ log' = log \o (IF out = "no_button"
                          THEN <<Ev("click", COPY_RAW_TELEMETRY, FALSE)>>
                          ELSE <<Ev("click", COPY_RAW_TELEMETRY, TRUE),
                                 Ev("json.loads", "clipboard", out = "ok")>>)
                      \o <<Ev("close_tab", "", TRUE)>>
        /\ tabs' = tabs - 1
        /\ result' = IF out = "ok" THEN [kind |-> "json", val |-> <<>>] ELSE result
        /\ exc' = IF out = "ok" THEN exc
                  ELSE Exc("APIHelperError", "Failed to retrieve raw message information value.")
    /\ pc' = "done"
    /\ UNCHANGED <<fn, stack, finished, tabs0, clip, os, type_delay, type_delay0, value, menu, prev, found, button, acr>>

-----------------------------------------------------------------------------
(* create_region_from_image *)

hamburger_pop_up_menu_weight == 285
hamburger_pop_up_menu_height == 655
SCREEN_WIDTH == 1920
SCREEN_HEIGHT == 1080

HAMBURGER_MENU == "NavBar.HAMBURGER_MENU"
LIBRARY_MENU == "NavBar.LIBRARY_MENU"
OPTION == "option"

\* where an anchor can be matched: left of, at and right of the pop-up's width
AnchorXs == {0, hamburger_pop_up_menu_weight}
            \cup {hamburger_pop_up_menu_weight + i : i \in 1..MaxOffset}
AnchorYs == 0..MaxOffset

Match(x, y) == [kind |-> "match", x |-> x, y |-> y]
Matches == {Match(x, y) : x \in AnchorXs, y \in AnchorYs}

\* what find(image) can do: return a match, return a false value, raise FindError
FindOutcomes == Matches \cup {[kind |-> "falsy"], [kind |-> "FindError"]}

Region(x, y, w, h) == [kind |-> "region", x |-> x, y |-> y, w |-> w, h |-> h]

\* mutant of create_region_from_image: an absent anchor gives None, no error
create_region_from_image_ReturnsNone(f) ==
    IF f.kind = "match"
    THEN [raised |-> NoExc,
          val |-> Region(f.x - hamburger_pop_up_menu_weight, f.y,
                         hamburger_pop_up_menu_weight, hamburger_pop_up_menu_height)]
    ELSE [raised |-> NoExc, val |-> NoResult]

\* mutant of create_region_from_image: the region starts at the anchor
create_region_from_image_AtAnchor(f) ==
    IF f.kind = "match"
    THEN [raised |-> NoExc,
          val |-> Region(f.x, f.y, hamburger_pop_up_menu_weight, hamburger_pop_up_menu_height)]
    ELSE [raised |-> Exc("APIHelperError", "Image not present."), val |-> NoResult]

\* lines 517-535, on the outcome f of find(image)
create_region_from_image(f) ==
    CASE f.kind = "match" ->
            [raised |-> NoExc,
             val |-> Region(f.x - hamburger_pop_up_menu_weight, f.y,
                            hamburger_pop_up_menu_weight, hamburger_pop_up_menu_height)]
      [] f.kind = "falsy" ->
            [raised |-> Exc("APIHelperError", "No matching found."), val |-> NoResult]
      [] f.kind = "FindError" ->
            [raised |-> Exc("APIHelperError", "Image not present."), val |-> NoResult]

Call_create_region_from_image ==
    /\ Begin("create_region_from_image", "crfi")
    /\ value' = NoValue
    /\ button' = "none"
    /\ acr' = NoAcr

crfi ==
    /\ pc = "crfi"
    /\ \E f \in FindOutcomes :
        /\ found' = f
        /\ log' = Append(log, Ev("find", "image", f.kind = "match"))
        /\ result' = create_region_from_image(f).val
        /\ exc' = create_region_from_image(f).raised
    /\ pc' = "done"
    /\ UNCHANGED <<fn, stack, finished, tabs, tabs0, clip, os, type_delay, type_delay0, value, menu, prev, button, acr>>

-----------------------------------------------------------------------------
(* click_hamburger_menu_option, open_library_menu *)

\* the browser: a click on a menu button opens its panel, or closes it when
\* it is open
Toggle(panel) == IF panel = "closed" THEN "open" ELSE "closed"

Call_click_hamburger_menu_option ==
    /\ Begin("click_hamburger_menu_option", "chmo_locate")
    /\ value' = NoValue
    /\ button' = "none"
    /\ acr' = NoAcr

\* lines 269-275: wait for the menu button, build the region
chmo_locate ==
    /\ pc = "chmo_locate"
    /\ \/ /\ log' = Append(log, Ev("wait", HAMBURGER_MENU, FALSE))
          /\ pc' = "done"
          /\ exc' = Exc("APIHelperError", "Can't find the hamburger menu in the page, aborting test.")
          /\ UNCHANGED <<result, found>>
       \/ \E f \in FindOutcomes :
            LET built == create_region_from_image(f)
            IN  /\ log' = log \o <<Ev("wait", HAMBURGER_MENU, TRUE),
                                   Ev("find", HAMBURGER_MENU, f.kind = "match")>>
                /\ found' = f
                /\ result' = result
                /\ exc' = built.raised
                /\ pc' = IF built.raised = NoExc THEN "chmo_click" ELSE "done"
    /\ UNCHANGED <<fn, stack, finished, tabs, tabs0, clip, os, type_delay, type_delay0, value, menu, prev, button, acr>>

\* lines 276-278: the else clause clicks the menu button; its FindError is
\* outside every try block
chmo_click ==
    /\ pc = "chmo_click"
    /\ \E ok \in BOOLEAN :
        /\ log' = Append(log, Ev("click", HAMBURGER_MENU, ok))
        /\ menu' = IF ok THEN Toggle(menu) ELSE menu
        /\ pc' = IF ok THEN "chmo_option" ELSE "done"
        /\ exc' = IF ok THEN exc ELSE Exc("FindError", HAMBURGER_MENU)
    /\ UNCHANGED <<fn, stack, result, finished, tabs, tabs0, clip, os, type_delay, type_delay0, value, prev, found, button, acr>>

\* the outcomes of region.wait(option, 10) followed by region.click(option):
\* the option can be found only in the open panel
OptionOutcomes(panel) ==
    IF panel = "open" THEN {"ok", "no_wait", "no_click"} ELSE {"no_wait"}

\* mutant of MenuOption: the option is waited for and never clicked
MenuOption_NoClick(here, region) ==
    /\ pc = here
    /\ \E out \in OptionOutcomes(menu) :
        /\ log' = log \o (IF out = "no_wait" THEN <<Ev("wait", OPTION, FALSE)>>
                          ELSE <<Ev("wait", OPTION, TRUE)>>)
        /\ menu' = menu
        /\ result' = IF out = "no_wait" THEN result ELSE region
        /\ exc' = IF out = "no_wait"
                  THEN Exc("APIHelperError", "Can't find the option in the page, aborting test.")
                  ELSE exc
    /\ pc' = "done"
    /\ UNCHANGED <<fn, stack, finished, tabs, tabs0, clip, os, type_delay, type_delay0, value, prev, found, button, acr>>

\* lines 279-285 and 622-629: wait for the option in the region, click it and
\* return the region; the click on the option closes the panel
MenuOption(here, region) ==
    /\ pc = here
    /\ \E out \in OptionOutcomes(menu) :
        /\ log' = log \o WaitClick(OPTION, out)
        /\ menu' = IF out = "ok" THEN "closed" ELSE menu
        /\ result' = IF out = "ok" THEN region ELSE result
        /\ exc' = IF out = "ok" THEN exc
                  ELSE Exc("APIHelperError", "Can't find the option in the page, aborting test.")
    /\ pc' = "done"
    /\ UNCHANGED <<fn, stack, finished, tabs, tabs0, clip, os, type_delay, type_delay0, value, prev, found, button, acr>>

chmo_option == MenuOption("chmo_option", create_region_from_image(found).val)

Call_open_library_menu ==
    /\ Begin("open_library_menu", "olm_locate")
    /\ value' = NoValue
    /\ button' = "none"
    /\ acr' = NoAcr

\* lines 611-617: wait for the menu button, build the region from two finds
olm_locate ==
    /\ pc = "olm_locate"
    /\ \/ /\ log' = Append(log, Ev("wait", LIBRARY_MENU, FALSE))
          /\ pc' = "done"
          /\ exc' = Exc("APIHelperError", "Can't find the library menu in the page, aborting test.")
          /\ found' = found
       \/ \E f \in Matches \cup {[kind |-> "FindError"]} :
            /\ log' = log \o <<Ev("wait", LIBRARY_MENU, TRUE),
                               Ev("find", LIBRARY_MENU, f.kind = "match")>>
            /\ found' = f
            /\ IF f.kind = "match"
               THEN /\ pc' = "olm_click"
                    /\ exc' = exc
               ELSE /\ pc' = "done"
                    /\ exc' = Exc("APIHelperError", "Can't find the library menu in the page, aborting test.")
    /\ UNCHANGED <<fn, stack, result, finished, tabs, tabs0, clip, os, type_delay, type_delay0, value, menu, prev, button, acr>>

\* lines 618-621: the else clause clicks the menu button
olm_click ==
    /\ pc = "olm_click"
    /\ \E ok \in BOOLEAN :
        /\ log' = Append(log, Ev("click", LIBRARY_MENU, ok))
        /\ menu' = IF ok THEN Toggle(menu) ELSE menu
        /\ pc' = IF ok THEN "olm_option" ELSE "done"
        /\ exc' = IF ok THEN exc ELSE Exc("FindError", LIBRARY_MENU)
    /\ UNCHANGED <<fn, stack, result, finished, tabs, tabs0, clip, os, type_delay, type_delay0, value, prev, found, button, acr>>

\* line 613-614: Region(x - SCREEN_WIDTH / 4, y, SCREEN_WIDTH / 4, SCREEN_HEIGHT / 4)
LibraryRegion(f) ==
    Region(f.x - SCREEN_WIDTH \div 4, f.y, SCREEN_WIDTH \div 4, SCREEN_HEIGHT \div 4)

olm_option == MenuOption("olm_option", LibraryRegion(found))

-----------------------------------------------------------------------------
(* the helpers that wait for one pattern and click it *)

CANCEL_BUTTON == "cancel_button.png"
DONE_BUTTON == "customize_done_button.png"
DONT_SAVE_BUTTON == "dont_save_password_button.png"
ZOOM_DECREASE == "zoom_control_toolbar_decrease.png"
REMOVE_FROM_TOOLBAR == "remove_from_toolbar.png"
VIEW_MENU == "view_menu.png"
MAIN_MENU_WINDOW == "main_menu_window.png"
START_BAR == "firefox_start_bar.png"
START_BAR_LIBRARY == "firefox_start_bar_library.png"

CallPlain(f, p) ==
    /\ Begin(f, p)
    /\ value' = NoValue
    /\ button' = "none"
    /\ acr' = NoAcr

\* try: wait(pattern, 10); click(pattern); except FindError: raise APIHelperError
WaitThenClick(here, pattern, msg) ==
    /\ pc = here
    /\ \E out \in {"ok", "no_wait", "no_click"} :
        /\ log' = log \o WaitClick(pattern, out)
        /\ exc' = IF out = "ok" THEN exc ELSE Exc("APIHelperError", msg)
    /\ pc' = "done"
    /\ UNCHANGED <<fn, stack, result, finished, tabs, tabs0, clip, os, type_delay, type_delay0, value, menu, prev, found, button, acr>>

Call_click_cancel_button == CallPlain("click_cancel_button", "ccb")

\* lines 372-380
click_cancel_button ==
    WaitThenClick("ccb", CANCEL_BUTTON, "Can't find the cancel button, aborting.")

Call_close_customize_page == CallPlain("close_customize_page", "ccp")

\* lines 383-391
close_customize_page ==
    WaitThenClick("ccp", DONE_BUTTON, "Can't find the Done button in the page, aborting.")

Call_bookmark_options == CallPlain("bookmark_options", "bo")

\* lines 658-670
bookmark_options ==
    WaitThenClick("bo", OPTION, "Can't find option, aborting.")

Call_dont_save_password == CallPlain("dont_save_password", "dsp")

\* lines 255-260: exists, then a click outside every try block
dont_save_password ==
    /\ pc = "dsp"
    /\ \E out \in {"ok", "absent", "no_click"} :
        /\ log' = log \o (CASE out = "ok" -> <<Ev("exists", DONT_SAVE_BUTTON, TRUE),
                                               Ev("click", DONT_SAVE_BUTTON, TRUE)>>
                            [] out = "absent" -> <<Ev("exists", DONT_SAVE_BUTTON, FALSE)>>
                            [] out = "no_click" -> <<Ev("exists", DONT_SAVE_BUTTON, TRUE),
                                                     Ev("click", DONT_SAVE_BUTTON, FALSE)>>)
        /\ exc' = CASE out = "ok" -> exc
                    [] out = "absent" ->
                        Exc("APIHelperError", "Unable to find dont_save_password_button.png.")
                    [] out = "no_click" -> Exc("FindError", DONT_SAVE_BUTTON)
    /\ pc' = "done"
    /\ UNCHANGED <<fn, stack, result, finished, tabs, tabs0, clip, os, type_delay, type_delay0, value, menu, prev, found, button, acr>>

Call_remove_zoom_indicator_from_toolbar ==
    CallPlain("remove_zoom_indicator_from_toolbar", "rzi")

\* lines 632-655: three try blocks, each with its own APIHelperError
remove_zoom_indicator_from_toolbar ==
    /\ pc = "rzi"
    /\ \E stop \in 0..5 :
        LET all == <<Ev("wait", ZOOM_DECREASE, TRUE), Ev("right_click", ZOOM_DECREASE, TRUE),
                     Ev("wait", REMOVE_FROM_TOOLBAR, TRUE), Ev("click", REMOVE_FROM_TOOLBAR, TRUE),
                     Ev("wait_vanish", ZOOM_DECREASE, TRUE)>>
            failed == [all[stop] EXCEPT !.ok = FALSE]
        IN  /\ log' = log \o (IF stop = 0 THEN all
                              ELSE SubSeq(all, 1, stop - 1) \o <<failed>>)
            /\ exc' = CASE stop = 0 -> exc
                        [] stop \in {1, 2} -> Exc("APIHelperError",
                            "Can't find the 'Decrease' zoom control button in the page, aborting.")
                        [] stop \in {3, 4} -> Exc("APIHelperError",
                            "Can't find the 'Remove from Toolbar' option in the page, aborting.")
                        [] stop = 5 -> Exc("APIHelperError",
                            "Zoom indicator not removed from toolbar, aborting.")
    /\ pc' = "done"
    /\ UNCHANGED <<fn, stack, result, finished, tabs, tabs0, clip, os, type_delay, type_delay0, value, menu, prev, found, button, acr>>

Call_open_zoom_menu == CallPlain("open_zoom_menu", "ozm")

\* the Down keys of range(n), then Enter
Downs(n) == [i \in 1..n |-> Ev("type", "DOWN", TRUE)] \o <<Ev("type", "ENTER", TRUE)>>

\* lines 463-476: on MAC a click on the View menu without a wait, elsewhere
\* Alt+v typed at once
open_zoom_menu ==
    /\ pc = "ozm"
    /\ IF os = "MAC"
       THEN \E ok \in BOOLEAN :
              /\ log' = log \o (IF ok THEN <<Ev("click", VIEW_MENU, TRUE)>> \o Downs(3)
                                ELSE <<Ev("click", VIEW_MENU, FALSE)>>)
              /\ exc' = IF ok THEN exc ELSE Exc("FindError", VIEW_MENU)
       ELSE /\ log' = log \o <<Ev("type", "ALT+v", TRUE)>> \o Downs(2)
            /\ exc' = exc
    /\ pc' = "done"
    /\ UNCHANGED <<fn, stack, result, finished, tabs, tabs0, clip, os, type_delay, type_delay0, value, menu, prev, found, button, acr>>

Call_restore_window_from_taskbar == CallPlain("restore_window_from_taskbar", "rwt")

\* lines 574-598; win7 is get_os_version() == 'win7', option the argument
restore_window_from_taskbar ==
    /\ pc = "rwt"
    /\ \E win7 \in {w \in BOOLEAN : w => os = "WINDOWS"},
          option \in {"None", "library_menu"}, stop \in 0..2 :
        LET unsuccessful == Exc("APIHelperError", "Restore window from taskbar unsuccessful.")
            mac == <<Ev("wait", MAIN_MENU_WINDOW, TRUE), Ev("click", MAIN_MENU_WINDOW, TRUE)>>
            bar == <<Ev("click", START_BAR, TRUE)>>
                   \o (IF option = "library_menu"
                       THEN <<Ev("click", START_BAR_LIBRARY, TRUE)>> ELSE <<>>)
            searches == IF os = "MAC" THEN mac ELSE IF win7 THEN bar ELSE <<>>
        IN  /\ stop <= Len(searches)
            /\ IF stop > 0
               THEN /\ log' = log \o SubSeq(searches, 1, stop - 1)
                                  \o <<[searches[stop] EXCEPT !.ok = FALSE]>>
                    /\ exc' = unsuccessful
               ELSE /\ log' = log \o searches
                        \o (CASE os = "MAC" -> <<Ev("type", "DOWN", TRUE), Ev("type", "ENTER", TRUE)>>
                              [] os # "MAC" /\ win7 -> <<>>
                              [] OTHER -> <<Ev("type", "ALT+TAB", TRUE)>>
                                          \o (IF os = "LINUX"
                                              THEN <<Ev("hover", "Location(0, 50)", TRUE)>>
                                              ELSE <<>>))
                    /\ exc' = exc
    /\ pc' = "done"
    /\ UNCHANGED <<fn, stack, result, finished, tabs, tabs0, clip, os, type_delay, type_delay0, value, menu, prev, found, button, acr>>

-----------------------------------------------------------------------------
(* select_location_bar_option *)

RightClickLocationBar ==
    [UNDO |-> 0, CUT |-> 1, COPY |-> 2, PASTE |-> 3, PASTE_GO |-> 4, DELETE |-> 5,
     SELECT_ALL |-> 6]

OptionNumbers == {RightClickLocationBar[k] : k \in DOMAIN RightClickLocationBar}

\* len(range(n))
RangeLen(n) == IF n < 0 THEN 0 ELSE n

\* lines 507-514: the number of Down presses before Enter
DownPresses(p, option_number) ==
    IF p = "WINDOWS" THEN RangeLen(option_number + 1) ELSE RangeLen(option_number - 1)

Call_select_location_bar_option ==
    /\ Begin("select_location_bar_option", "slbo")
    /\ \E option_number \in OptionNumbers :
        value' = <<option_number>>
    /\ button' = "none"
    /\ acr' = NoAcr

\* lines 501-514
select_location_bar_option ==
    /\ pc = "slbo"
    /\ log' = log \o Downs(DownPresses(os, value[1]))
    /\ pc' = "done"
    /\ UNCHANGED <<fn, stack, exc, result, finished, tabs, tabs0, clip, os, type_delay, type_delay0, value, menu, prev, found, button, acr>>

-----------------------------------------------------------------------------
(* navigate_slow, navigate *)

Call_navigate_slow == CallPlain("navigate_slow", "ns")

\* lines 98-112: every exception of the three statements becomes
\* APIHelperError; the assignment to Settings.type_delay is never undone
navigate_slow ==
    /\ pc = "ns"
    /\ \E out \in {"ok", "no_select", "no_type"} :
        /\ log' = log \o <<Ev("select_location_bar", "", out # "no_select")>>
                      \o (IF out = "no_select" THEN <<>>
                          ELSE <<Ev("type", "url+ENTER", out = "ok")>>)
        /\ type_delay' = IF out = "no_select" THEN type_delay ELSE SLOW_TYPE_DELAY
        /\ exc' = IF out = "ok" THEN exc
                  ELSE Exc("APIHelperError", "No active window found, cannot navigate to page.")
    /\ pc' = "done"
    /\ UNCHANGED <<fn, stack, result, finished, tabs, tabs0, clip, os, type_delay0, value, menu, prev, found, button, acr>>

Call_navigate == CallPlain("navigate", "nav")

\* lines 115-126
navigate ==
    /\ pc = "nav"
    /\ \E out \in {"ok", "no_select", "no_paste", "no_type"} :
        /\ log' = log \o <<Ev("select_location_bar", "", out # "no_select")>>
                      \o (IF out = "no_select" THEN <<>>
                          ELSE <<Ev("paste", "url", out # "no_paste")>>)
                      \o (IF out \in {"no_select", "no_paste"} THEN <<>>
                          ELSE <<Ev("type", "ENTER", out = "ok")>>)
        /\ exc' = IF out = "ok" THEN exc
                  ELSE Exc("APIHelperError", "No active window found, cannot navigate to page.")
    /\ pc' = "done"
    /\ UNCHANGED <<fn, stack, result, finished, tabs, tabs0, clip, os, type_delay, type_delay0, value, menu, prev, found, button, acr>>

-----------------------------------------------------------------------------
(* regions between anchors: create_region_for_url_bar,
   create_region_for_hamburger_menu *)

SHOW_HISTORY_BUTTON == "LocationBar.SHOW_HISTORY_BUTTON"
padding_top == 20
padding_bottom == 20
padding_right == 20

\* an argument left at None
NoAnchor == [kind |-> "None"]

\* what locating an anchor can do: a match, or FindError
AnchorOutcomes == Matches \cup {[kind |-> "FindError"]}

Paddings(l, r, t, b) == [left |-> l, right |-> r, top |-> t, bottom |-> b]

\* the edges of the rectangle: an anchor's position moved inward by the padding,
\* the screen's edge where no anchor is given
Edges(left, right, top, bottom, pad) ==
    [left   |-> IF left = NoAnchor THEN pad.left ELSE left.x + pad.left,
     right  |-> IF right = NoAnchor THEN SCREEN_WIDTH - pad.right ELSE right.x - pad.right,
     top    |-> IF top = NoAnchor THEN pad.top ELSE top.y + pad.top,
     bottom |-> IF bottom = NoAnchor THEN SCREEN_HEIGHT - pad.bottom ELSE bottom.y - pad.bottom]

\* mutant of create_region_from_patterns: the edges are not validated
create_region_from_patterns_Unchecked(left, right, top, bottom, pad) ==
    LET e == Edges(left, right, top, bottom, pad)
    IN  IF \E a \in {left, right, top, bottom} : a.kind = "FindError"
        THEN [raised |-> Exc("FindError", "anchor"), val |-> NoResult]
        ELSE [raised |-> NoExc,
              val |-> Region(e.left, e.top, e.right - e.left, e.bottom - e.top)]

\* the multi-anchor construction: an absent anchor is a FindError, edges that
\* are not left < right and top < bottom are a construction error
create_region_from_patterns(left, right, top, bottom, pad) ==
    LET e == Edges(left, right, top, bottom, pad)
    IN  CASE \E a \in {left, right, top, bottom} : a.kind = "FindError" ->
                [raised |-> Exc("FindError", "anchor"), val |-> NoResult]
          [] OTHER ->
                IF e.left < e.right /\ e.top < e.bottom
                THEN [raised |-> NoExc,
                      val |-> Region(e.left, e.top, e.right - e.left, e.bottom - e.top)]
                ELSE [raised |-> Exc("AmbiguousPrecondition", "invalid geometry"),
                      val |-> NoResult]

\* the searches a construction logs: one per anchor given, up to the first
\* that is absent
RECURSIVE Searches(_)
Searches(anchors) ==
    IF anchors = <<>> THEN <<>>
    ELSE <<Ev("find", "anchor", Head(anchors).kind = "match")>>
         \o (IF Head(anchors).kind = "match" THEN Searches(Tail(anchors)) ELSE <<>>)

Call_create_region_for_url_bar == CallPlain("create_region_for_url_bar", "crub")

\* lines 538-550: only FindError is turned into APIHelperError
create_region_for_url_bar ==
    /\ pc = "crub"
    /\ \E show_history \in AnchorOutcomes, hamburger \in AnchorOutcomes :
        LET r == create_region_from_patterns(show_history, hamburger, NoAnchor, NoAnchor,
                                             Paddings(0, 0, padding_top, padding_bottom))
        IN  /\ found' = [kind |-> "anchors", left |-> show_history, right |-> hamburger]
            /\ log' = log \o <<Ev("type", "select_location_bar", TRUE)>>
                          \o Searches(<<show_history, hamburger>>)
            /\ result' = r.val
            /\ exc' = IF r.raised.cls = "FindError"
                      THEN Exc("APIHelperError", "Could not create region for URL bar.")
                      ELSE r.raised
    /\ pc' = "done"
    /\ UNCHANGED <<fn, stack, finished, tabs, tabs0, clip, os, type_delay, type_delay0, value, menu, prev, button, acr>>

Call_create_region_for_hamburger_menu ==
    CallPlain("create_region_for_hamburger_menu", "crhm")

\* lines 553-571 (the platform only selects the second anchor's image):
\* FindError and ValueError are turned into APIHelperError;
\* is_value_error says whether the construction error is a ValueError
create_region_for_hamburger_menu ==
    /\ pc = "crhm"
    /\ \E out \in {"ok", "no_wait", "no_click"}, hamburger \in AnchorOutcomes,
          item \in AnchorOutcomes, is_value_error \in BOOLEAN :
        LET r == create_region_from_patterns(NoAnchor, hamburger, item, NoAnchor,
                                             Paddings(0, padding_right, 0, 0))
            cant == Exc("APIHelperError", "Can't find the hamburger menu in the page, aborting test.")
        IN  IF out = "ok"
            THEN /\ found' = [kind |-> "anchors", left |-> NoAnchor, right |-> hamburger]
                 /\ log' = log \o WaitClick(HAMBURGER_MENU, out) \o Searches(<<hamburger, item>>)
                 /\ menu' = Toggle(menu)
                 /\ result' = r.val
                 /\ exc' = CASE r.raised.cls = "FindError" -> cant
                             [] r.raised.cls = "AmbiguousPrecondition" /\ is_value_error -> cant
                             [] OTHER -> r.raised
            ELSE /\ found' = found
                 /\ log' = log \o WaitClick(HAMBURGER_MENU, out)
                 /\ menu' = menu
                 /\ result' = result
                 /\ exc' = cant
    /\ pc' = "done"
    /\ UNCHANGED <<fn, stack, finished, tabs, tabs0, clip, os, type_delay, type_delay0, value, prev, button, acr>>

-----------------------------------------------------------------------------

\* a run that uses the recovery helpers
Next ==
    \/ Call_confirm_firefox_quit
    \/ cfq_wait1
    \/ cfq_escalate
    \/ cfq_wait2
    \/ cfq_abort
    \/ Call_address_crash_reporter
    \/ acr_exists
    \/ acr_dismiss
    \/ acr_wait_vanish
    \/ Call_click_auxiliary_window_control
    \/ aux_hover
    \/ aux_wait
    \/ aux_act
    \/ Call_restart_firefox
    \/ rf_quit
    \/ rf_wait
    \/ rf_launch
    \/ rf_check
    \/ Call_wait_for_firefox_restart
    \/ wait_for_firefox_restart
    \/ Call_zoom_with_mouse_wheel
    \/ zoom_with_mouse_wheel

Spec == Init /\ [][Next]_vars

\* a run that uses the about:* readers
NextReaders ==
    \/ Call_change_preference
    \/ cp_open
    \/ cp_read
    \/ cp_write
    \/ Call_get_pref_value
    \/ gpv_open
    \/ gpv_read
    \/ gpv_close
    \/ Call_get_support_info
    \/ gsi_open
    \/ gsi_copy
    \/ Call_get_telemetry_info
    \/ gti_open
    \/ gti_raw_json
    \/ gti_raw_data
    \/ gti_copy

SpecReaders == Init /\ [][NextReaders]_vars

\* a run that uses the menu and region helpers
NextMenus ==
    \/ Call_create_region_from_image
    \/ crfi
    \/ Call_click_hamburger_menu_option
    \/ chmo_locate
    \/ chmo_click
    \/ chmo_option
    \/ Call_open_library_menu
    \/ olm_locate
    \/ olm_click
    \/ olm_option
    \/ Call_click_cancel_button
    \/ click_cancel_button
    \/ Call_close_customize_page
    \/ close_customize_page
    \/ Call_bookmark_options
    \/ bookmark_options
    \/ Call_dont_save_password
    \/ dont_save_password
    \/ Call_remove_zoom_indicator_from_toolbar
    \/ remove_zoom_indicator_from_toolbar
    \/ Call_open_zoom_menu
    \/ open_zoom_menu
    \/ Call_restore_window_from_taskbar
    \/ restore_window_from_taskbar
    \/ Call_click_auxiliary_window_control
    \/ aux_hover
    \/ aux_wait
    \/ aux_act
    \/ Call_create_region_for_url_bar
    \/ create_region_for_url_bar
    \/ Call_create_region_for_hamburger_menu
    \/ create_region_for_hamburger_menu
    \/ Call_select_location_bar_option
    \/ select_location_bar_option
    \/ Call_navigate_slow
    \/ navigate_slow
    \/ Call_navigate
    \/ navigate

SpecMenus == Init /\ [][NextMenus]_vars

-----------------------------------------------------------------------------
(* Properties *)

CFQ == fn = "confirm_firefox_quit"
RF == fn = "restart_firefox"
GPV == fn = "get_pref_value"

\* the outcome of the first wait_vanish on the home button
FirstWaitIs(i, k) == Len(log) >= i /\ log[i] = Ev("wait_vanish", HOME_BUTTON, k)

\* positions of the waits on the home button
HomeWaits == {i \in 1..Len(log) : log[i].op = "wait_vanish" /\ log[i].arg = HOME_BUTTON}

\* entries that only the escalation of confirm_firefox_quit produces
EscalationSteps ==
    {i \in 1..Len(log) :
        \/ log[i].op = "type" /\ log[i].arg \in {"ENTER", "ESC"}
        \/ log[i].op = "click" /\ log[i].arg = HOME_BUTTON
        \/ log[i].op = "quit_firefox"
        \/ i \in HomeWaits /\ i > 1}

\* C1: in confirm_firefox_quit, when the first wait for the home button to
\* vanish succeeds, no step of the escalation path is ever executed and the
\* flow ends by returning normally, whatever the crash-reporter dismissal does.
C1_VanishedNeverEscalates ==
    (CFQ /\ FirstWaitIs(1, TRUE)) =>
        /\ EscalationSteps = {}
        /\ pc = "done" => (exc = NoExc /\ ~finished)

\* C2: in confirm_firefox_quit, when the first wait fails, the escalation
\* sequence Enter, Esc, click on the home button, quit_firefox, one re-wait
\* has been executed exactly once when the invocation ends.
C2_EscalationExactlyOnce ==
    (CFQ /\ pc = "done" /\ FirstWaitIs(1, FALSE)) =>
        /\ Count(log, "type", "ENTER") = 1
        /\ Count(log, "type", "ESC") = 1
        /\ Count(log, "click", HOME_BUTTON) = 1
        /\ Count(log, "quit_firefox", "") = 1
        /\ Cardinality(HomeWaits) = 2

\* C3: in confirm_firefox_quit the home button is waited on at most twice;
\* when the second wait fails too, the only thing that follows is
\* app.finish(code=1): no keystroke, click, quit or wait comes after it.
C3_SecondFailureIsTerminal ==
    CFQ =>
        /\ Cardinality(HomeWaits) <= 2
        /\ \A i \in HomeWaits :
            (i > 1 /\ ~log[i].ok) =>
                \/ pc = "cfq_abort" /\ Len(log) = i
                \/ /\ pc = "done"
                   /\ finished
                   /\ exc = NoExc
                   /\ log = SubSeq(log, 1, i) \o <<Ev("finish", "1", TRUE)>>

C3_Witness ==
    /\ CFQ
    /\ pc = "done"
    /\ finished
    /\ Cardinality(HomeWaits) = 2
    /\ \A i \in HomeWaits : ~log[i].ok

AcrLeft == acr.state \in {"returned", "raised"}
AcrSpan == (acr.start + 1)..acr.end
AcrProbeIs(k) == Len(log) > acr.start /\ acr.state # "none"
                 /\ log[acr.start + 1] = Ev("exists", REPORTER, k)

\* C5: in address_crash_reporter, when the existence probe reports the
\* reporter absent, the invocation consists of that probe alone (no click, no
\* typing, no click_auxiliary_window_control) and returns normally.
C5_AbsentReporterNoInput ==
    AcrProbeIs(FALSE) =>
        /\ acr.state = "returned"
        /\ acr.end = acr.start + 1

C5_Witness ==
    /\ AcrProbeIs(FALSE)
    /\ acr.state = "returned"
    /\ CFQ

\* positions, inside the latest invocation, of the reporter's failed wait and
\* of the calls of the force-close
AcrTimeouts == {i \in AcrSpan : log[i] = Ev("wait_vanish", REPORTER, FALSE)}
AcrForceCloses == {i \in AcrSpan : log[i].op = "click_auxiliary_window_control"}

\* C6: in address_crash_reporter, when the reporter is present and does not
\* vanish within its timeout, click_auxiliary_window_control('close') is
\* called exactly once, right after the failed wait, and nothing that follows
\* in the invocation touches the reporter again (no wait, click or probe on
\* the reporter or its quit button), whether the force-close returns or raises.
C6_ForceCloseOnceThenStop ==
    (AcrLeft /\ AcrTimeouts # {}) =>
        /\ Cardinality(AcrTimeouts) = 1
        /\ Cardinality(AcrForceCloses) = 1
        /\ \A t \in AcrTimeouts :
            /\ t + 1 \in AcrForceCloses
            /\ log[t + 1].arg = "close"
            /\ \A j \in AcrSpan :
                j > t => log[j].arg \notin {REPORTER, QUIT_BUTTON}

C6_Witness ==
    /\ AcrLeft
    /\ AcrTimeouts # {}
    /\ acr.state = "raised"
    /\ Cardinality(AcrForceCloses) = 1

\* C7: every execution of get_pref_value closes the tab it opened: when it
\* ends, by return or by exception, close_tab has been called once and the
\* number of open tabs is what it was before the call.
C7_PrefTabAlwaysClosed ==
    (GPV /\ pc = "done") =>
        /\ Count(log, "close_tab", "") = 1
        /\ tabs = tabs0

\* C8: every execution of get_support_info and of get_telemetry_info closes
\* the tab it opened exactly once on every exit path after new_tab.
C8_InfoTabClosedOnce ==
    (fn \in {"get_support_info", "get_telemetry_info"} /\ pc = "done") =>
        /\ Count(log, "close_tab", "") = 1
        /\ tabs = tabs0

HasSemicolon(text) == \E i \in 1..Len(text) : text[i] = ";"

\* C9 (as claimed): for every clipboard text with at least one semicolon,
\* get_pref_value returns the second field of the semicolon-delimited text.
C9_ReturnsSecondField ==
    (GPV /\ pc = "done" /\ HasSemicolon(clip)) =>
        result = [kind |-> "text", val |-> Split(clip, ";")[2]]

\* C9 (amended): for every clipboard text with at least one semicolon,
\* get_pref_value returns the second field of the text with the whitespace at
\* the text's two ends removed: the second field itself, without its trailing
\* whitespace when it is the last field of the text.
C9_ReturnsSecondFieldOfStripped ==
    (GPV /\ pc = "done" /\ HasSemicolon(clip)) =>
        LET fields == Split(clip, ";")
        IN  /\ exc = NoExc
            /\ result.kind = "text"
            /\ result.val = IF Len(fields) = 2 THEN RStrip(fields[2]) ELSE fields[2]

C9_Witness ==
    /\ GPV
    /\ pc = "done"
    /\ clip = <<"v", ";", "v", " ">>
    /\ result = [kind |-> "text", val |-> <<"v">>]

\* C10 (as claimed): when the clipboard text has no semicolon, get_pref_value
\* raises a dedicated ProtocolFormatError, not the error of a missing UI
\* element and not an index error, and returns no value.
C10_RaisesProtocolFormatError ==
    (GPV /\ pc = "done" /\ ~HasSemicolon(clip)) =>
        /\ exc.cls = "ProtocolFormatError"
        /\ result = NoResult

\* C10 (amended): when the clipboard text has no semicolon, get_pref_value
\* raises APIHelperError 'Failed to retrieve preference value.', the class
\* that also signals a missing UI element; no index error surfaces and no
\* value is returned.
C10_NoSemicolonRaisesAPIHelperError ==
    (GPV /\ pc = "done" /\ ~HasSemicolon(clip)) =>
        /\ exc = Exc("APIHelperError", "Failed to retrieve preference value.")
        /\ result = NoResult

C10_Witness ==
    /\ GPV
    /\ pc = "done"
    /\ clip = <<"v", " ", "v">>
    /\ exc.cls = "APIHelperError"

CP == fn = "change_preference"

\* what change_preference read back from the row it copied
Retrieved == SplitSecond(copy_to_clipboard(clip))

\* position of the copy of the row in the log
CopyAt == CHOOSE i \in 1..Len(log) : log[i].op = "edit_copy"

\* C11: in change_preference, when the value read back equals the requested
\* value, the helper returns at once: nothing is dispatched after the copy of
\* the row (no Enter that opens the edit dialog, no paste, no confirming Enter).
C11_AlreadySetWritesNothing ==
    (CP /\ pc \in {"cp_write", "done"} /\ Retrieved.raised = "none" /\ Retrieved.val = value) =>
        /\ pc = "done"
        /\ exc = NoExc
        /\ Len(log) = CopyAt
        /\ Count(log, "paste", "value") = 0
        /\ Count(log, "type", "ENTER") = 1

C11_Witness ==
    /\ CP
    /\ pc = "done"
    /\ clip = <<"v", ";", "v">>
    /\ value = <<"v">>
    /\ exc = NoExc

\* C12: change_preference never swallows a failure: when the value read back
\* differs from the requested one and the edit dialog does not appear within
\* its timeout, so that the value is never pasted, the call ends by raising.
C12_DialogTimeoutRaises ==
    (CP /\ pc = "done" /\ Tried(log, "wait", DIALOG_ICON) = 1
        /\ Count(log, "wait", DIALOG_ICON) = 0) =>
        exc # NoExc

MenuButton == IF fn = "open_library_menu" THEN LIBRARY_MENU ELSE HAMBURGER_MENU

\* C13: in click_hamburger_menu_option and open_library_menu, when the option
\* is not found after the menu button was clicked, the panel is not open at
\* the moment the error is raised.
C13_FailedOptionLeavesMenuClosed ==
    (fn \in MenuHelpers /\ pc = "done" /\ exc # NoExc
        /\ Count(log, "click", MenuButton) = 1) =>
        menu = "closed"

\* the running invocation repeats the helper that has just succeeded
SecondInARow == fn \in MenuHelpers /\ prev.fn = fn /\ prev.ok

\* C14: when a menu helper is called again right after a call of it that
\* succeeded, it starts with the panel closed, its click on the menu button
\* opens the panel, and when the searches succeed as in the first call it makes
\* the same calls as the first and succeeds too.
C14_SecondCallLikeFirst ==
    SecondInARow =>
        /\ pc \in {"chmo_locate", "olm_locate", "chmo_click", "olm_click"} => menu = "closed"
        /\ pc \in {"chmo_option", "olm_option"} => menu = "open"
        /\ (pc = "done" /\ Count(log, "click", OPTION) = 1) =>
                (exc = NoExc /\ log = prev.log /\ menu = "closed")

C14_Witness ==
    /\ SecondInARow
    /\ pc = "done"
    /\ exc = NoExc
    /\ log = prev.log
    /\ Count(log, "click", OPTION) = 1

InputOps == {"click", "right_click", "type", "paste", "key_down", "key_up"}

\* the input events that were dispatched
Inputs == {i \in 1..Len(log) : log[i].op \in InputOps /\ log[i].ok}

Precondition ==
    CASE fn = "click_hamburger_menu_option" -> HAMBURGER_MENU
      [] fn = "open_library_menu" -> LIBRARY_MENU
      [] fn = "click_cancel_button" -> CANCEL_BUTTON
      [] fn = "close_customize_page" -> DONE_BUTTON
      [] fn = "bookmark_options" -> OPTION
      [] fn = "remove_zoom_indicator_from_toolbar" -> ZOOM_DECREASE
      [] fn = "dont_save_password" -> DONT_SAVE_BUTTON
      [] fn = "click_auxiliary_window_control" -> AuxAnchor(os)
      [] fn = "open_zoom_menu" -> VIEW_MENU
      [] fn = "restore_window_from_taskbar" ->
            IF os = "MAC" THEN MAIN_MENU_WINDOW ELSE START_BAR
      [] OTHER -> "none"

\* the bounded searches for the precondition pattern
Locates == {j \in 1..Len(log) : log[j].op \in {"wait", "exists"} /\ log[j].arg = Precondition}

\* no input before a successful search; a failed first search ends the helper
\* with APIHelperError and without any input
LocateBeforeAct ==
    /\ \A i \in Inputs : \E j \in Locates : j < i /\ log[j].ok
    /\ \A j \in Locates :
        (~log[j].ok /\ \A k \in Locates : k >= j) =>
            (pc = "done" /\ exc.cls = "APIHelperError" /\ Inputs = {})

ClickingHelpers ==
    {"click_hamburger_menu_option", "open_library_menu", "click_cancel_button",
     "close_customize_page", "bookmark_options", "remove_zoom_indicator_from_toolbar",
     "dont_save_password", "open_zoom_menu", "restore_window_from_taskbar",
     "click_auxiliary_window_control"}

\* C15: in each of the ten helpers that click a pattern, on every
\* platform, no click or keystroke is dispatched before a bounded wait/exists
\* for the helper's precondition pattern has succeeded; when the pattern is
\* absent the helper fails without acting.
C15_EveryHelperLocatesFirst ==
    fn \in ClickingHelpers => LocateBeforeAct

BetweenAnchors == {"create_region_for_url_bar", "create_region_for_hamburger_menu"}

\* the edges the last construction derived from its anchors
Derived ==
    IF fn = "create_region_for_url_bar"
    THEN Edges(found.left, found.right, NoAnchor, NoAnchor,
               Paddings(0, 0, padding_top, padding_bottom))
    ELSE Edges(found.left, found.right, NoAnchor, NoAnchor, Paddings(0, padding_right, 0, 0))

\* both edges were located and the left one is not left of the right one
Crossed ==
    /\ fn \in BetweenAnchors
    /\ pc = "done"
    /\ found.kind = "anchors"
    /\ found.left.kind # "FindError"
    /\ found.right.kind = "match"
    /\ Derived.left >= Derived.right

AUX == fn = "click_auxiliary_window_control"

\* C19: on every platform and for every button, click_auxiliary_window_control
\* either completes its input sequence or raises APIHelperError; it never ends
\* with another error, such as the one from reading a pattern that only the
\* other platform's branch defines.
C19_CompletesOrRaisesAPIHelperError ==
    (AUX /\ pc = "done") => exc.cls \in {NoExc.cls, "APIHelperError"}

\* C20: confirm_firefox_quit ends by returning normally or by calling
\* app.finish(code=1); no exception escapes it.
C20_NoExceptionEscapes ==
    (CFQ /\ pc = "done") => exc = NoExc

\* C21: every execution of change_preference closes the tab it opened, on
\* every exit path: when it ends the number of open tabs is what it was before
\* the call, whatever calls came before.
C21_PreferenceTabAlwaysClosed ==
    (CP /\ pc = "done") => tabs = tabs0

\* the calls of launch_firefox, started or not
Launches == {i \in 1..Len(log) : log[i].op = "launch_firefox"}

\* C22: restart_firefox calls launch_firefox at most once per invocation and
\* only after the wait for the home button to vanish has succeeded; when the
\* wait times out, nothing is launched and APIHelperError is raised.
C22_LaunchOnlyAfterVanish ==
    RF =>
        /\ Cardinality(Launches) <= 1
        /\ \A i \in Launches :
            \E j \in 1..(i - 1) : log[j] = Ev("wait_vanish", HOME_BUTTON, TRUE)
        /\ (\E j \in 1..Len(log) : log[j] = Ev("wait_vanish", HOME_BUTTON, FALSE)) =>
            /\ Launches = {}
            /\ pc = "done"
            /\ exc.cls = "APIHelperError"

C22_Witness ==
    /\ RF
    /\ pc = "done"
    /\ log = <<Ev("quit_firefox", "", TRUE), Ev("wait_vanish", HOME_BUTTON, TRUE),
               Ev("launch_firefox", "", TRUE), Ev("exists", HOME_BUTTON, TRUE)>>
    /\ exc = NoExc

Restarts == {"restart_firefox", "wait_for_firefox_restart"}

\* the home button was seen to vanish and, later, the pattern that shows the
\* new window was seen
VanishedThenAppeared ==
    \E i, j \in 1..Len(log) :
        /\ i < j
        /\ log[i] = Ev("wait_vanish", HOME_BUTTON, TRUE)
        /\ log[j].op \in {"wait", "exists"}
        /\ log[j].ok

\* C23: restart_firefox and wait_for_firefox_restart return normally only
\* when the home button was seen to vanish first and the check pattern was
\* seen to appear afterwards; in every other case they raise APIHelperError.
C23_ReturnsOnlyOnBothEvidence ==
    (fn \in Restarts /\ pc = "done") =>
        /\ exc = NoExc => VanishedThenAppeared
        /\ ~VanishedThenAppeared => exc.cls = "APIHelperError"

\* the key-downs that no later key-up of the same key answers
Held ==
    {i \in 1..Len(log) :
        /\ log[i].op = "key_down"
        /\ log[i].ok
        /\ ~\E j \in (i + 1)..Len(log) :
              log[j].op = "key_up" /\ log[j].arg = log[i].arg /\ log[j].ok}

\* C24: no modifier key is left held down when click_auxiliary_window_control
\* or zoom_with_mouse_wheel exits, by return or by error: every key-down of
\* ALT, command or ctrl has been followed by the matching key-up.
C24_NoModifierLeftDown ==
    (fn \in {"click_auxiliary_window_control", "zoom_with_mouse_wheel"} /\ pc = "done") =>
        Held = {}

\* C25: on each platform select_location_bar_option maps distinct option
\* numbers to distinct key sequences: the number of Down presses typed for the
\* option of this call is typed for no other option.
C25_DistinctOptionsDistinctKeys ==
    (fn = "select_location_bar_option" /\ pc = "done") =>
        \A other \in OptionNumbers \ {value[1]} :
            Count(log, "type", "DOWN") # DownPresses(os, other)

\* C26: navigation leaves the process-wide settings unchanged: when
\* navigate_slow or navigate exits, by return or by error, Settings.type_delay
\* has the value it had before the call.
C26_TypeDelayRestored ==
    (fn \in {"navigate_slow", "navigate"} /\ pc = "done") => type_delay = type_delay0

====
